---- MODULE Spec2Model ----
(***************************************************************************)
(* Model of the todo tracker: the TodoApp page (task list, daily stats,    *)
(* persistence to localStorage through React effects) and the              *)
(* ContributionMap component (its own copy of the stats, the global        *)
(* updateContributionMap function, the calendar grid).                     *)
(*                                                                         *)
(* A calendar day is an integer, the number of days since 1970-01-01.      *)
(* One action is one browser task: the handler, the render it causes and   *)
(* the effects that render schedules, run until no state update is left.   *)
(***************************************************************************)
EXTENDS Integers, Sequences, FiniteSets, TLC

VARIABLES
    clock,        \* the calendar day new Date() falls on
    ls,           \* localStorage: key -> stored value
    app,          \* "unmounted" | "mounted" | "crashed"
    todos,        \* TodoApp state: todos
    newTodo,      \* TodoApp state: newTodo (the input field)
    today,        \* TodoApp: the `today` string of the last render
    stats,        \* TodoApp state: stats
    cmStats,      \* ContributionMap state: stats
    isMounted,    \* ContributionMap state: isMounted
    updateFn,     \* window.updateContributionMap is defined
    nextId,       \* number of ids crypto.randomUUID() has handed out
    nUpdates,     \* number of calls of updateContributionMap so far
    gEnd,         \* grid: endDate
    gIdx,         \* grid: number of allDates already visited by forEach
    gWeeks,       \* grid: weeks
    gCurrentWeek, \* grid: currentWeek
    gMIdx,        \* grid: number of allDates visited by the forEach of months
    gMonths,      \* grid: months
    gCurrentMonth, \* grid: currentMonth
    rTodos,       \* recomputation on its own: the task list given
    rStats,       \* recomputation on its own: the stat list given
    rOut,         \* recomputation on its own: the stat list produced
    rDone,        \* recomputation on its own: whether it has run
    cStats,       \* one cell: the stats of the ContributionMap that renders it
    cEnd,         \* one cell: endDate of the grid
    cDate,        \* one cell: its date
    cColor,       \* one cell: the colour class rendered
    cRendered,    \* one cell: whether it has been rendered
    cPointer,     \* one cell: whether the pointer is over it
    hoveredDay,   \* ContributionMap state: hoveredDay, <<>> for null
    tabs,         \* two open pages: for each its mount phase and its state
    lastOp,       \* two open pages: the one whose handler ran last
    instance,     \* component alone: the mounted instance, 0 for none
    nMounts,      \* component alone: number of instances mounted so far
    instStats,    \* component alone: stats of the mounted instance
    storageListeners,    \* window: instances with a "storage" listener attached
    completionListeners, \* window: instances with a listener of the event attached
    updateOwner,  \* window.updateContributionMap: its instance, 0 for undefined
    staleCall     \* a listener of an unmounted instance has called setStats

appVars == <<clock, ls, app, todos, newTodo, today, stats, cmStats, isMounted,
             updateFn, nextId, nUpdates>>
gridVars == <<gEnd, gIdx, gWeeks, gCurrentWeek, gMIdx, gMonths, gCurrentMonth>>
recVars == <<rTodos, rStats, rOut, rDone>>
cellVars == <<cStats, cEnd, cDate, cColor, cRendered, cPointer, hoveredDay>>
tabVars == <<tabs, lastOp>>
lifeVars == <<instance, nMounts, instStats, storageListeners,
              completionListeners, updateOwner, staleCall>>
vars == <<appVars, gridVars, recVars, cellVars, tabVars, lifeVars>>

-----------------------------------------------------------------------------
(* Bounds of the model *)

Day0 == 19722          \* the first day of a run: 2023-12-31, a Sunday
MaxTicks == 1          \* midnights that pass during a run
MaxIds == 2            \* tasks ever created in a run
MaxUpdates == 2        \* calls of updateContributionMap in a run
GridDays == 7          \* number of different values of today for the grid
MaxRecTodos == 7       \* tasks given to the recomputation on its own

(* Program constants *)

WindowDays == 365      \* Array.from({ length: 365 }), subDays(endDate, 364)
WeekLen == 7           \* 7 - currentWeek.length

-----------------------------------------------------------------------------
(* Dates: date-fns format(date, "yyyy-MM-dd") and Date.getDay() *)

\* The civil date of day number n, as <<year, month, day>>: what
\* format(d, "yyyy-MM-dd") prints.
FormatDate(n) ==
    LET z == n + 719468
        era == z \div 146097
        doe == z - era * 146097
        yoe == (doe - doe \div 1460 + doe \div 36524 - doe \div 146096) \div 365
        doy == doe - (365 * yoe + yoe \div 4 - yoe \div 100)
        mp == (5 * doy + 2) \div 153
        d == doy - (153 * mp + 2) \div 5 + 1
        m == IF mp < 10 THEN mp + 3 ELSE mp - 9
        y == yoe + era * 400 + (IF m <= 2 THEN 1 ELSE 0)
    IN  <<y, m, d>>

\* Date.getDay(): 0 is Sunday. 1970-01-01 was a Thursday.
GetDay(n) == (n + 4) % 7

-----------------------------------------------------------------------------
(* Records *)

ZeroStat(date) == [date |-> date, completed |-> 0, total |-> 0, percentage |-> 0]

TodoFields == <<"id", "text", "completed", "date">>
StatFields == <<"date", "completed", "total", "percentage">>

-----------------------------------------------------------------------------
(* localStorage and JSON *)

TodosKey == "todos"
StatsKey == "stats"
LOCAL_STORAGE_KEY == "contribution-tracker-stats"
TODO_COMPLETION_EVENT == "todo-completion-update"
Keys == {TodosKey, StatsKey, LOCAL_STORAGE_KEY, TODO_COMPLETION_EVENT}
RecordKeys == {TodosKey, StatsKey, LOCAL_STORAGE_KEY}

Absent == [kind |-> "absent", body |-> <<>>]      \* getItem returns null
Garbage == [kind |-> "garbage", body |-> <<>>]    \* a text JSON.parse rejects
Stamp == [kind |-> "stamp", body |-> <<>>]        \* Date.now().toString()

\* JSON.stringify of an array of objects: each object becomes its
\* key/value pairs in field order.
Stringify(fields, list) ==
    [kind |-> "json",
     body |-> [k \in 1..Len(list) |->
                 [f \in 1..Len(fields) |-> <<fields[f], list[k][fields[f]]>>]]]

\* JSON.parse throws on a text that is not JSON.
Parses(v) == v.kind = "json"

\* JSON.parse of a stored array: each run of key/value pairs becomes an object.
Parse(v) ==
    [k \in 1..Len(v.body) |->
        LET pairs == v.body[k]
        IN  [name \in {pairs[f][1] : f \in 1..Len(pairs)} |->
                pairs[CHOOSE f \in 1..Len(pairs) : pairs[f][1] = name][2]]]

\* `if (savedTodos)`: null is falsy, a non-empty string is truthy.
Truthy(v) == v.kind # "absent"

-----------------------------------------------------------------------------
(* TodoApp: the stats recomputation effect *)

\* Bucket with the bound of the second level one too low.
BucketLowBound(completed) ==
    IF completed = 0 THEN 0
    ELSE IF completed = 1 THEN 25
    ELSE IF completed < 3 THEN 50
    ELSE IF completed <= 5 THEN 75
    ELSE 100

\* The contribution level stored in `percentage`.
Bucket(completed) ==
    IF completed = 0 THEN 0
    ELSE IF completed = 1 THEN 25
    ELSE IF completed <= 3 THEN 50
    ELSE IF completed <= 5 THEN 75
    ELSE 100

\* slice(0, -1)
DropLast(s) == IF Len(s) = 0 THEN s ELSE SubSeq(s, 1, Len(s) - 1)

\* Start from the stat list, put today first when it is missing.
Anchor(list, now) ==
    IF \E k \in 1..Len(list) : list[k].date = FormatDate(now)
    THEN list
    ELSE <<ZeroStat(FormatDate(now))>> \o DropLast(list)

ResetCounts(list) ==
    [k \in 1..Len(list) |->
        [list[k] EXCEPT !.completed = 0, !.total = 0, !.percentage = 0]]

\* statsMap.get(date): the index set last for this date, 0 for undefined.
StatIndex(list, date) ==
    IF \E k \in 1..Len(list) : list[k].date = date
    THEN CHOOSE k \in 1..Len(list) :
            /\ list[k].date = date
            /\ \A j \in 1..Len(list) : list[j].date = date => j <= k
    ELSE 0

\* One iteration of todos.forEach.
CountTodo(list, todo) ==
    IF todo.completed /\ StatIndex(list, todo.date) # 0
    THEN LET i == StatIndex(list, todo.date)
             c == list[i].completed + 1
         IN  [list EXCEPT ![i] = [@ EXCEPT !.completed = c,
                                           !.percentage = Bucket(c)]]
    ELSE list

RECURSIVE CountTodos(_, _, _)
CountTodos(list, ts, k) ==
    IF k > Len(ts) THEN list
    ELSE CountTodos(CountTodo(list, ts[k]), ts, k + 1)

\* The whole effect: the value it passes to setStats.
RecomputeStats(list, ts, now) ==
    CountTodos(ResetCounts(Anchor(list, now)), ts, 1)

-----------------------------------------------------------------------------
(* TodoApp: load, seed and persist effects *)

\* The seed for the last 365 days, today first.
InitialStats(now) ==
    [i \in 1..WindowDays |-> ZeroStat(FormatDate(now - (i - 1)))]

\* Several setState calls in one batch: the last value passed wins.
LastUpdate(updates) == updates[Len(updates)]

\* The load effect calls JSON.parse outside any try block.
LoadThrows(store) ==
    \/ Truthy(store[TodosKey]) /\ ~Parses(store[TodosKey])
    \/ Truthy(store[StatsKey]) /\ ~Parses(store[StatsKey])

\* The list the load effect passes to setTodos; none when nothing is stored.
LoadedTodos(store) ==
    IF Truthy(store[TodosKey]) THEN Parse(store[TodosKey]) ELSE <<>>

\* The list the load effect passes to setStats.
LoadedStats(store, now) ==
    IF Truthy(store[StatsKey]) THEN Parse(store[StatsKey]) ELSE InitialStats(now)

\* PersistTodos with the write left out.
PersistTodosSkipped(store, ts) == store

\* The persist effects after a change of todos: todos is written, the
\* recomputation runs, and the stats it sets are written by the next pass.
PersistTodos(store, ts) == [store EXCEPT ![TodosKey] = Stringify(TodoFields, ts)]
PersistStats(store, list) == [store EXCEPT ![StatsKey] = Stringify(StatFields, list)]

-----------------------------------------------------------------------------
(* ContributionMap: mount and persist effects *)

\* The mount effect: the list it passes to setStats, or the initial state
\* when it sets nothing. A parse failure is caught and logged.
CMLoad(store, initialStats) ==
    IF Truthy(store[LOCAL_STORAGE_KEY])
    THEN IF Parses(store[LOCAL_STORAGE_KEY])
         THEN Parse(store[LOCAL_STORAGE_KEY])
         ELSE initialStats
    ELSE IF Truthy(store[StatsKey])
         THEN IF Parses(store[StatsKey])
              THEN Parse(store[StatsKey])
              ELSE initialStats
         ELSE initialStats

CMPersist(store, list) ==
    [store EXCEPT ![LOCAL_STORAGE_KEY] = Stringify(StatFields, list)]

-----------------------------------------------------------------------------
(* Mounting the page: first render with empty state, then the effects,    *)
(* child before parent, then the renders and effects their updates cause. *)

Unmounted(store) ==
    [crashed |-> FALSE, mounted |-> FALSE, todos |-> <<>>, stats |-> <<>>,
     cmStats |-> <<>>, ls |-> store]

\* Pass 1: the first render (todos = [], stats = [], isMounted = false) and
\* its effects: both components read the store, the persist effects write
\* the empty lists, the recomputation sets stats last.
MountPass1(store, now) ==
    [crashed |-> LoadThrows(store),
     cmStats |-> CMLoad(store, <<>>),
     todos |-> LoadedTodos(store),
     todosSet |-> Truthy(store[TodosKey]),
     stats |-> LastUpdate(<<LoadedStats(store, now),
                            RecomputeStats(<<>>, <<>>, now)>>),
     ls |-> IF LoadThrows(store) THEN store
            ELSE PersistStats(PersistTodos(store, <<>>), <<>>)]

\* Pass 2: the render with isMounted = true and the loaded state, and its
\* effects: the persist effects write what was loaded, the recomputation
\* runs when setTodos was called.
MountPass2(store, p, now) ==
    LET store2a == CMPersist(store, p.cmStats)
        store2b == IF p.todosSet THEN PersistTodos(store2a, p.todos) ELSE store2a
    IN  [p EXCEPT !.ls = PersistStats(store2b, p.stats),
                  !.stats = IF p.todosSet
                            THEN RecomputeStats(p.stats, p.todos, now)
                            ELSE p.stats]

\* Pass 3: the render with the recomputed stats; they are persisted.
MountPass3(store, p) == [p EXCEPT !.ls = PersistStats(store, p.stats)]

MountResult(store, now) ==
    LET p1 == MountPass1(store, now)
        p2 == MountPass2(p1.ls, p1, now)
        p3 == MountPass3(p2.ls, p2)
    IN  IF p1.crashed
        THEN [Unmounted(store) EXCEPT !.crashed = TRUE]
        ELSE [crashed |-> FALSE, mounted |-> TRUE, todos |-> p3.todos,
              stats |-> p3.stats, cmStats |-> p3.cmStats, ls |-> p3.ls]

-----------------------------------------------------------------------------
(* TodoApp: the handlers *)

\* The texts typed into the input: empty, blank, and one with a letter.
Texts == {<<>>, <<" ", " ">>, <<"a", " ">>}

\* Trim that returns its argument as it is.
TrimNothing(t) == t

\* String.prototype.trim
RECURSIVE Trim(_)
Trim(t) ==
    IF Len(t) = 0 THEN t
    ELSE IF t[1] = " " THEN Trim(Tail(t))
    ELSE IF t[Len(t)] = " " THEN Trim(SubSeq(t, 1, Len(t) - 1))
    ELSE t

NewTodoItem(id, text, date) ==
    [id |-> id, text |-> text, completed |-> FALSE, date |-> date]

\* addTodo: the list passed to setTodos.
AddedTodos(ts, item) == Append(ts, item)

\* ToggledTodos that marks the task completed whatever it was.
ToggledTodosSetTrue(ts, id) ==
    [k \in 1..Len(ts) |->
        IF ts[k].id = id THEN [ts[k] EXCEPT !.completed = TRUE]
        ELSE ts[k]]

\* toggleTodo: the list passed to setTodos.
ToggledTodos(ts, id) ==
    [k \in 1..Len(ts) |->
        IF ts[k].id = id THEN [ts[k] EXCEPT !.completed = ~ts[k].completed]
        ELSE ts[k]]

\* DeletedTodos with the test of the filter turned round.
DeletedTodosKeepsMatch(ts, id) ==
    SelectSeq(ts, LAMBDA t : t.id = id)

\* deleteTodo: the list passed to setTodos.
RECURSIVE DeletedTodos(_, _)
DeletedTodos(ts, id) ==
    IF Len(ts) = 0 THEN ts
    ELSE IF ts[1].id = id THEN DeletedTodos(Tail(ts), id)
    ELSE <<ts[1]>> \o DeletedTodos(Tail(ts), id)

\* setTodos(list), the render, and the effects that depend on todos.
TodosChanged(list) ==
    LET newStats == RecomputeStats(stats, list, clock)
    IN  /\ todos' = list
        /\ today' = FormatDate(clock)
        /\ stats' = newStats
        /\ ls' = PersistStats(PersistTodos(ls, list), newStats)

-----------------------------------------------------------------------------
(* ContributionMap: window.updateContributionMap *)

Max(a, b) == IF a >= b THEN a ELSE b

\* findIndex: the first index with this date, 0 for -1.
FindIndex(list, date) ==
    IF \E k \in 1..Len(list) : list[k].date = date
    THEN CHOOSE k \in 1..Len(list) :
            /\ list[k].date = date
            /\ \A j \in 1..Len(list) : list[j].date = date => k <= j
    ELSE 0

\* (completed / Math.max(total, 1)) * 100; every total the program stores is
\* 0 or 1, so the division is exact.
Ratio(completed, total) == (completed * 100) \div Max(total, 1)

\* UpdatedStats that pushes a new entry on every increment and leaves a
\* decrement out.
UpdatedStatsAlwaysPushes(prevStats, increment, now) ==
    IF increment
    THEN Append(prevStats, [date |-> FormatDate(now), completed |-> 1,
                            total |-> 1, percentage |-> 100])
    ELSE prevStats

\* The updater passed to setStats: the list it returns.
UpdatedStats(prevStats, increment, now) ==
    LET date == FormatDate(now)
        i == FindIndex(prevStats, date)
    IN  IF i # 0
        THEN LET c == IF increment THEN prevStats[i].completed + 1
                      ELSE Max(prevStats[i].completed - 1, 0)
             IN  [prevStats EXCEPT ![i] =
                    [@ EXCEPT !.completed = c,
                              !.percentage = Ratio(c, prevStats[i].total)]]
        ELSE IF increment
        THEN Append(prevStats, [date |-> date, completed |-> 1, total |-> 1,
                                percentage |-> 100])
        ELSE prevStats

\* handleTodoCompletion: the list it passes to setStats, or the current one.
HandleTodoCompletion(store, current) ==
    IF Truthy(store[LOCAL_STORAGE_KEY]) /\ Parses(store[LOCAL_STORAGE_KEY])
    THEN Parse(store[LOCAL_STORAGE_KEY])
    ELSE current

-----------------------------------------------------------------------------
(* ContributionMap: what a cell shows *)

\* statsMap.get(dateStr): the entry set last for the date, as <<entry>>, or
\* <<>> for undefined.
StatsMapGet(list, date) ==
    IF StatIndex(list, date) = 0 THEN <<>> ELSE <<list[StatIndex(list, date)]>>

\* GetColorClass taking the level from the percentage bucket.
GetColorClassByPercentage(day) ==
    IF day = <<>> THEN "empty"
    ELSE IF day[1].percentage = 0 THEN "empty"
    ELSE IF day[1].percentage >= 100 THEN "level4"
    ELSE IF day[1].percentage >= 75 THEN "level3"
    ELSE IF day[1].percentage >= 50 THEN "level2"
    ELSE "level1"

\* getColorClass(day)
GetColorClass(day) ==
    IF day = <<>> THEN "empty"
    ELSE IF day[1].completed = 0 THEN "empty"
    ELSE IF day[1].completed >= 10 THEN "level4"
    ELSE IF day[1].completed >= 7 THEN "level3"
    ELSE IF day[1].completed >= 4 THEN "level2"
    ELSE IF day[1].completed >= 1 THEN "level1"
    ELSE "empty"

\* `date > endDate` at render.
IsFutureDate(date, endDate) == date > endDate

\* The colour class of the cell of `date` in a grid that ends at endDate.
CellColor(list, date, endDate) ==
    IF IsFutureDate(date, endDate) THEN "transparent"
    ELSE GetColorClass(StatsMapGet(list, FormatDate(date)))

\* formatTooltip(day, date): the date, the count printed and the words.
FormatTooltip(day, date) ==
    IF day = <<>>
    THEN [date |-> FormatDate(date), count |-> 0, words |-> "No contributions"]
    ELSE IF day[1].completed = 0
    THEN [date |-> FormatDate(date), count |-> 0, words |-> "No contributions"]
    ELSE [date |-> FormatDate(date), count |-> day[1].completed,
          words |-> IF day[1].completed = 1 THEN "contribution"
                    ELSE "contributions"]

CellTooltip(list, date) == FormatTooltip(StatsMapGet(list, FormatDate(date)), date)

-----------------------------------------------------------------------------
(* The page as a state machine *)

NoDate == <<0, 0, 0>>

AppInit ==
    /\ clock = Day0
    /\ ls = [k \in Keys |-> Absent]
    /\ app = "unmounted"
    /\ todos = <<>>
    /\ newTodo = <<>>
    /\ today = NoDate
    /\ stats = <<>>
    /\ cmStats = <<>>
    /\ isMounted = FALSE
    /\ updateFn = FALSE
    /\ nextId = 0
    /\ nUpdates = 0

\* The state of a page that is not on screen.
Cleared ==
    /\ todos' = <<>>
    /\ newTodo' = <<>>
    /\ today' = NoDate
    /\ stats' = <<>>
    /\ cmStats' = <<>>
    /\ isMounted' = FALSE
    /\ updateFn' = FALSE

\* The page is opened (or reloaded after a failure).
Mount ==
    /\ UNCHANGED <<gridVars, recVars, cellVars, tabVars, lifeVars>>
    /\ app # "mounted"
    /\ LET r == MountResult(ls, clock)
       IN  IF r.crashed
           THEN /\ app' = "crashed"
                /\ Cleared
                /\ UNCHANGED ls
           ELSE /\ app' = "mounted"
                /\ todos' = r.todos
                /\ newTodo' = <<>>
                /\ today' = FormatDate(clock)
                /\ stats' = r.stats
                /\ cmStats' = r.cmStats
                /\ isMounted' = TRUE
                /\ updateFn' = TRUE
                /\ ls' = r.ls
    /\ UNCHANGED <<clock, nextId, nUpdates>>

\* The page is closed: the effect cleanups run, the state is dropped.
Unmount ==
    /\ UNCHANGED <<gridVars, recVars, cellVars, tabVars, lifeVars>>
    /\ app = "mounted"
    /\ app' = "unmounted"
    /\ Cleared
    /\ UNCHANGED <<clock, ls, nextId, nUpdates>>

\* onChange of the input: setNewTodo, and the page renders again.
SetNewTodo(text) ==
    /\ UNCHANGED <<gridVars, recVars, cellVars, tabVars, lifeVars>>
    /\ app = "mounted"
    /\ newTodo' = text
    /\ today' = FormatDate(clock)
    /\ UNCHANGED <<clock, ls, app, todos, stats, cmStats, isMounted, updateFn,
                   nextId, nUpdates>>

\* addTodo, with the text, the date and the list of the last render.
AddTodo ==
    /\ UNCHANGED <<gridVars, recVars, cellVars, tabVars, lifeVars>>
    /\ app = "mounted"
    /\ IF Trim(newTodo) = <<>>
       THEN UNCHANGED <<todos, newTodo, today, stats, ls, nextId>>
       ELSE /\ nextId < MaxIds
            /\ nextId' = nextId + 1
            /\ TodosChanged(AddedTodos(todos, NewTodoItem(nextId + 1, newTodo, today)))
            /\ newTodo' = <<>>
    /\ UNCHANGED <<clock, app, cmStats, isMounted, updateFn, nUpdates>>

\* toggleTodo(id)
ToggleTodo(id) ==
    /\ UNCHANGED <<gridVars, recVars, cellVars, tabVars, lifeVars>>
    /\ app = "mounted"
    /\ TodosChanged(ToggledTodos(todos, id))
    /\ UNCHANGED <<clock, app, newTodo, cmStats, isMounted, updateFn, nextId, nUpdates>>

\* deleteTodo(id)
DeleteTodo(id) ==
    /\ UNCHANGED <<gridVars, recVars, cellVars, tabVars, lifeVars>>
    /\ app = "mounted"
    /\ TodosChanged(DeletedTodos(todos, id))
    /\ UNCHANGED <<clock, app, newTodo, cmStats, isMounted, updateFn, nextId, nUpdates>>

\* window.updateContributionMap(increment): the updater writes both stat
\* records and the event key and dispatches the event, whose listener reads
\* the record back; then the persist effect of the component runs.
UpdateContributionMap(increment) ==
    /\ UNCHANGED <<gridVars, recVars, cellVars, tabVars, lifeVars>>
    /\ updateFn
    /\ nUpdates < MaxUpdates
    /\ nUpdates' = nUpdates + 1
    /\ LET newStats == UpdatedStats(cmStats, increment, clock)
           written == [ls EXCEPT
                         ![LOCAL_STORAGE_KEY] = Stringify(StatFields, newStats),
                         ![StatsKey] = Stringify(StatFields, newStats),
                         ![TODO_COMPLETION_EVENT] = Stamp]
           final == LastUpdate(<<newStats, HandleTodoCompletion(written, newStats)>>)
       IN  /\ cmStats' = final
           /\ ls' = CMPersist(written, final)
    /\ UNCHANGED <<clock, app, todos, newTodo, today, stats, isMounted, updateFn,
                   nextId>>

\* Midnight passes. Nothing renders.
Tick ==
    /\ UNCHANGED <<gridVars, recVars, cellVars, tabVars, lifeVars>>
    /\ clock < Day0 + MaxTicks
    /\ clock' = clock + 1
    /\ UNCHANGED <<ls, app, todos, newTodo, today, stats, cmStats, isMounted,
                   updateFn, nextId, nUpdates>>

\* While the page is closed, a stored record is damaged from outside.
StorageCorrupt(key) ==
    /\ UNCHANGED <<gridVars, recVars, cellVars, tabVars, lifeVars>>
    /\ app = "unmounted"
    /\ ls[key] # Garbage
    /\ ls' = [ls EXCEPT ![key] = Garbage]
    /\ UNCHANGED <<clock, app, todos, newTodo, today, stats, cmStats, isMounted,
                   updateFn, nextId, nUpdates>>

\* While the page is closed, a stored record is removed from outside.
StorageRemove(key) ==
    /\ UNCHANGED <<gridVars, recVars, cellVars, tabVars, lifeVars>>
    /\ app # "mounted"
    /\ ls[key] # Absent
    /\ ls' = [ls EXCEPT ![key] = Absent]
    /\ UNCHANGED <<clock, app, todos, newTodo, today, stats, cmStats, isMounted,
                   updateFn, nextId, nUpdates>>

Ids == 1..(MaxIds + 1)

Next ==
    \/ Mount
    \/ Unmount
    \/ \E text \in Texts : SetNewTodo(text)
    \/ AddTodo
    \/ \E id \in Ids : ToggleTodo(id)
    \/ \E id \in Ids : DeleteTodo(id)
    \/ \E increment \in BOOLEAN : UpdateContributionMap(increment)
    \/ Tick

\* The page together with a store that is damaged from outside.
NextFaults ==
    \/ Next
    \/ \E key \in RecordKeys : StorageCorrupt(key)
    \/ \E key \in RecordKeys : StorageRemove(key)

GridIdle ==
    /\ gEnd = 0 /\ gIdx = 0 /\ gWeeks = <<>> /\ gCurrentWeek = <<>>
    /\ gMIdx = 0 /\ gMonths = <<>> /\ gCurrentMonth = -1
RecIdle == rTodos = <<>> /\ rStats = <<>> /\ rOut = <<>> /\ rDone = FALSE
CellIdle ==
    /\ cStats = <<>> /\ cEnd = 0 /\ cDate = 0
    /\ cColor = "" /\ cRendered = FALSE /\ cPointer = FALSE /\ hoveredDay = <<>>
TabsIdle == tabs = <<>> /\ lastOp = "none"
LifeIdle ==
    /\ instance = 0 /\ nMounts = 0 /\ instStats = <<>>
    /\ storageListeners = {} /\ completionListeners = {}
    /\ updateOwner = 0 /\ staleCall = FALSE

Init == AppInit /\ GridIdle /\ RecIdle /\ CellIdle /\ TabsIdle /\ LifeIdle
Spec == Init /\ [][Next]_vars
SpecFaults == Init /\ [][NextFaults]_vars

-----------------------------------------------------------------------------
(* ContributionMap: the calendar grid, one forEach iteration per step *)

YearBack == 364        \* subDays(endDate, 364)

StartDate(endDate) == endDate - YearBack

\* eachDayOfInterval({ start, end }): every day from start to end.
AllDates(endDate) ==
    [i \in 1..(endDate - StartDate(endDate) + 1) |-> StartDate(endDate) + (i - 1)]

\* StartsNewWeek with the week starting on Monday.
StartsNewWeekOnMonday(date, currentWeek) ==
    GetDay(date) = 1 /\ Len(currentWeek) > 0

\* `dayOfWeek === 0 && currentWeek.length > 0`
StartsNewWeek(date, currentWeek) == GetDay(date) = 0 /\ Len(currentWeek) > 0

\* The future dates that fill the last week.
Padding(date, currentWeek) ==
    [i \in 1..Max(WeekLen - Len(currentWeek), 0) |-> date + i]

GridInit ==
    /\ gEnd \in Day0..(Day0 + GridDays - 1)
    /\ gIdx = 0
    /\ gWeeks = <<>>
    /\ gCurrentWeek = <<>>
    /\ gMIdx = 0
    /\ gMonths = <<>>
    /\ gCurrentMonth = -1

GridStep ==
    /\ UNCHANGED <<appVars, recVars, cellVars, tabVars, lifeVars>>
    /\ gIdx < Len(AllDates(gEnd))
    /\ LET date == AllDates(gEnd)[gIdx + 1]
           pushed == StartsNewWeek(date, gCurrentWeek)
           weeks0 == IF pushed THEN Append(gWeeks, gCurrentWeek) ELSE gWeeks
           week0 == Append(IF pushed THEN <<>> ELSE gCurrentWeek, date)
           week1 == week0 \o Padding(date, week0)
       IN  IF date = gEnd
           THEN /\ gCurrentWeek' = week1
                /\ gWeeks' = Append(weeks0, week1)
           ELSE /\ gCurrentWeek' = week0
                /\ gWeeks' = weeks0
    /\ gIdx' = gIdx + 1
    /\ UNCHANGED <<gEnd, gMIdx, gMonths, gCurrentMonth>>

GridDone == gIdx = Len(AllDates(gEnd))

\* date.getMonth(): 0 for January.
GetMonth(n) == FormatDate(n)[2] - 1

\* format(date, "MMM")
MonthLabel(n) ==
    <<"Jan", "Feb", "Mar", "Apr", "May", "Jun",
      "Jul", "Aug", "Sep", "Oct", "Nov", "Dec">>[GetMonth(n) + 1]

\* One iteration of the forEach that collects the month labels; it runs
\* after the forEach of the weeks. `index` counts from 0.
MonthStep ==
    /\ UNCHANGED <<appVars, recVars, cellVars, tabVars, lifeVars>>
    /\ GridDone
    /\ gMIdx < Len(AllDates(gEnd))
    /\ LET date == AllDates(gEnd)[gMIdx + 1]
           index == gMIdx
       IN  IF GetMonth(date) # gCurrentMonth
           THEN /\ gMonths' = Append(gMonths, [label |-> MonthLabel(date),
                                               index |-> index \div WeekLen])
                /\ gCurrentMonth' = GetMonth(date)
           ELSE UNCHANGED <<gMonths, gCurrentMonth>>
    /\ gMIdx' = gMIdx + 1
    /\ UNCHANGED <<gEnd, gIdx, gWeeks, gCurrentWeek>>

MonthsDone == GridDone /\ gMIdx = Len(AllDates(gEnd))

InitGrid == AppInit /\ GridInit /\ RecIdle /\ CellIdle /\ TabsIdle /\ LifeIdle
NextGrid ==
    \/ GridStep
    \/ MonthStep
SpecGrid == InitGrid /\ [][NextGrid]_vars

-----------------------------------------------------------------------------
(* The recomputation effect on its own, over task lists of any content *)

RecToday == FormatDate(Day0)
RecYesterday == FormatDate(Day0 - 1)

RecTodos ==
    UNION {[1..n -> [completed : BOOLEAN, date : {RecToday, RecYesterday}]] :
             n \in 0..MaxRecTodos}

\* The stat lists the page holds when the effect runs: empty at mount, one
\* entry afterwards, for the day of the last run, with the counts of that run.
RecStats ==
    {<<>>,
     <<[ZeroStat(RecToday) EXCEPT !.completed = 2, !.percentage = 50]>>,
     <<[ZeroStat(RecYesterday) EXCEPT !.completed = 1, !.percentage = 25]>>}

RecInit ==
    /\ rTodos \in RecTodos
    /\ rStats \in RecStats
    /\ rOut = <<>>
    /\ rDone = FALSE

RecRun ==
    /\ ~rDone
    /\ rOut' = RecomputeStats(rStats, rTodos, Day0)
    /\ rDone' = TRUE
    /\ UNCHANGED <<rTodos, rStats>>

InitRec == AppInit /\ GridIdle /\ RecInit /\ CellIdle /\ TabsIdle /\ LifeIdle
NextRec == RecRun /\ UNCHANGED <<appVars, gridVars, cellVars, tabVars, lifeVars>>
SpecRec == InitRec /\ [][NextRec]_vars

-----------------------------------------------------------------------------
(* ContributionMap: one cell of the grid, its colour and the pointer *)

MaxCellCompleted == 11

\* The cell of yesterday, of today, and the first padding cell after today.
CellDates == {Day0 - 1, Day0, Day0 + 1}

\* The stats the component may hold: none, or one entry for the date of a
\* cell, with any counts.
CellStats ==
    {<<>>} \cup
    {<<[date |-> FormatDate(d), completed |-> c, total |-> t, percentage |-> p]>> :
        d \in CellDates, c \in 0..MaxCellCompleted, t \in {0, 1}, p \in {0, 100}}

CellInit ==
    /\ cStats \in CellStats
    /\ cEnd = Day0
    /\ cDate \in CellDates
    /\ cColor = ""
    /\ cRendered = FALSE
    /\ cPointer = FALSE
    /\ hoveredDay = <<>>

\* week.map((date) => ...): the cell is rendered.
CellRender ==
    /\ UNCHANGED <<appVars, gridVars, recVars, tabVars, lifeVars>>
    /\ ~cRendered
    /\ cColor' = CellColor(cStats, cDate, cEnd)
    /\ cRendered' = TRUE
    /\ UNCHANGED <<cStats, cEnd, cDate, cPointer, hoveredDay>>

\* onMouseEnter: setHoveredDay(dayStats || null)
MouseEnter ==
    /\ UNCHANGED <<appVars, gridVars, recVars, tabVars, lifeVars>>
    /\ cRendered
    /\ ~cPointer
    /\ cPointer' = TRUE
    /\ hoveredDay' = StatsMapGet(cStats, FormatDate(cDate))
    /\ UNCHANGED <<cStats, cEnd, cDate, cColor, cRendered>>

\* onMouseLeave: setHoveredDay(null)
MouseLeave ==
    /\ UNCHANGED <<appVars, gridVars, recVars, tabVars, lifeVars>>
    /\ cRendered
    /\ cPointer
    /\ cPointer' = FALSE
    /\ hoveredDay' = <<>>
    /\ UNCHANGED <<cStats, cEnd, cDate, cColor, cRendered>>

InitCell == AppInit /\ GridIdle /\ RecIdle /\ CellInit /\ TabsIdle /\ LifeIdle
NextCell ==
    \/ CellRender
    \/ MouseEnter
    \/ MouseLeave
SpecCell == InitCell /\ [][NextCell]_vars

-----------------------------------------------------------------------------
(* Two open pages on one localStorage. Each page has its own event loop, so *)
(* the passes of one page's mount (each a task of its own: an update made   *)
(* in an effect renders in a later task) interleave with the other page's   *)
(* handlers.                                                                *)

Tabs == {"A", "B"}

ClosedTab ==
    [phase |-> "closed", todos |-> <<>>, todosSet |-> FALSE, stats |-> <<>>,
     cmStats |-> <<>>]

\* The state of a page after a pass of its mount.
TabState(phase, p) ==
    [phase |-> phase, todos |-> p.todos, todosSet |-> p.todosSet,
     stats |-> p.stats, cmStats |-> p.cmStats]

\* The state of page t as a pass of its mount takes it.
PassOf(t) ==
    [crashed |-> FALSE, cmStats |-> tabs[t].cmStats, todos |-> tabs[t].todos,
     todosSet |-> tabs[t].todosSet, stats |-> tabs[t].stats, ls |-> ls]

TabsInit ==
    /\ tabs = [t \in Tabs |-> ClosedTab]
    /\ lastOp = "none"

TabFrame ==
    UNCHANGED <<clock, app, todos, newTodo, today, stats, cmStats, isMounted,
                updateFn, nUpdates, gridVars, recVars, cellVars, lifeVars>>

\* Page t is opened: first render and its effects.
TabMountPass1(t) ==
    /\ TabFrame
    /\ tabs[t].phase = "closed"
    /\ LET p == MountPass1(ls, clock)
       IN  /\ ~p.crashed
           /\ tabs' = [tabs EXCEPT ![t] = TabState("pass1", p)]
           /\ ls' = p.ls
    /\ UNCHANGED <<nextId, lastOp>>

\* Page t renders what it loaded; its effects write it back.
TabMountPass2(t) ==
    /\ TabFrame
    /\ tabs[t].phase = "pass1"
    /\ LET p == MountPass2(ls, PassOf(t), clock)
       IN  /\ tabs' = [tabs EXCEPT ![t] =
                         TabState(IF p.todosSet THEN "pass2" ELSE "open", p)]
           /\ ls' = p.ls
    /\ UNCHANGED <<nextId, lastOp>>

\* Page t renders the recomputed stats; its effect writes them.
TabMountPass3(t) ==
    /\ TabFrame
    /\ tabs[t].phase = "pass2"
    /\ LET p == MountPass3(ls, PassOf(t))
       IN  /\ tabs' = [tabs EXCEPT ![t] = TabState("open", p)]
           /\ ls' = p.ls
    /\ UNCHANGED <<nextId, lastOp>>

\* setTodos(list) in page t, the render, and the effects on todos and stats.
TabTodosChanged(t, list) ==
    LET newStats == RecomputeStats(tabs[t].stats, list, clock)
    IN  /\ tabs' = [tabs EXCEPT ![t].todos = list, ![t].stats = newStats]
        /\ ls' = PersistStats(PersistTodos(ls, list), newStats)
        /\ lastOp' = t

\* addTodo in page t, the text "a " typed before.
TabAdd(t) ==
    /\ TabFrame
    /\ tabs[t].phase = "open"
    /\ nextId < MaxIds
    /\ nextId' = nextId + 1
    /\ TabTodosChanged(t, AddedTodos(tabs[t].todos,
                          NewTodoItem(nextId + 1, <<"a", " ">>, FormatDate(clock))))

\* toggleTodo(id) in page t
TabToggle(t, id) ==
    /\ TabFrame
    /\ tabs[t].phase = "open"
    /\ TabTodosChanged(t, ToggledTodos(tabs[t].todos, id))
    /\ UNCHANGED nextId

\* deleteTodo(id) in page t
TabDelete(t, id) ==
    /\ TabFrame
    /\ tabs[t].phase = "open"
    /\ TabTodosChanged(t, DeletedTodos(tabs[t].todos, id))
    /\ UNCHANGED nextId

\* Page t is closed.
TabClose(t) ==
    /\ TabFrame
    /\ tabs[t].phase = "open"
    /\ tabs' = [tabs EXCEPT ![t] = ClosedTab]
    /\ lastOp' = IF lastOp = t THEN "none" ELSE lastOp
    /\ UNCHANGED <<ls, nextId>>

InitTabs == AppInit /\ GridIdle /\ RecIdle /\ CellIdle /\ TabsInit /\ LifeIdle
NextTabs ==
    \/ \E t \in Tabs : TabMountPass1(t)
    \/ \E t \in Tabs : TabMountPass2(t)
    \/ \E t \in Tabs : TabMountPass3(t)
    \/ \E t \in Tabs : TabAdd(t)
    \/ \E t \in Tabs : \E id \in Ids : TabToggle(t, id)
    \/ \E t \in Tabs : \E id \in Ids : TabDelete(t, id)
    \/ \E t \in Tabs : TabClose(t)
SpecTabs == InitTabs /\ [][NextTabs]_vars

-----------------------------------------------------------------------------
(* ContributionMap alone: what one instance after another attaches to the  *)
(* window, and the events that reach the listeners.                        *)

MaxMounts == 3

\* A listener: the instance whose effect made it and the function passed.
Listener(i, fn) == [inst |-> i, fn |-> fn]

\* addEventListener / removeEventListener: removal needs the same function.
AddListener(listeners, l) == listeners \cup {l}
RemoveListener(listeners, l) == listeners \ {l}

\* The lists another window's updateContributionMap stores.
OtherStats ==
    {<<[date |-> FormatDate(Day0), completed |-> c, total |-> 1,
        percentage |-> Ratio(c, 1)]>> : c \in 1..2}

LifeInit ==
    /\ instance = 0
    /\ nMounts = 0
    /\ instStats = <<>>
    /\ storageListeners = {}
    /\ completionListeners = {}
    /\ updateOwner = 0
    /\ staleCall = FALSE

LifeFrame ==
    UNCHANGED <<clock, app, todos, newTodo, today, stats, cmStats, isMounted,
                updateFn, nextId, gridVars, recVars, cellVars, tabVars>>

\* The listeners run: handleTodoCompletion of the mounted instance sets its
\* stats from the store; the one of an instance no longer mounted calls
\* setStats all the same.
Delivered(listeners, store, current) ==
    [stats |-> IF \E l \in listeners : l.inst = instance
               THEN HandleTodoCompletion(store, current)
               ELSE current,
     stale |-> \E l \in listeners :
                  /\ l.inst # instance
                  /\ Truthy(store[LOCAL_STORAGE_KEY])
                  /\ Parses(store[LOCAL_STORAGE_KEY])]

\* An instance mounts: the render with isMounted = false, whose effects
\* load the stats, then the render with isMounted = true, whose effects
\* attach the listeners, persist the stats and define the global function.
LifeMount ==
    /\ LifeFrame
    /\ instance = 0
    /\ nMounts < MaxMounts
    /\ LET i == nMounts + 1
           loaded == CMLoad(ls, <<>>)
       IN  /\ nMounts' = i
           /\ instance' = i
           /\ instStats' = loaded
           /\ storageListeners' =
                 AddListener(storageListeners, Listener(i, "anonymous"))
           /\ completionListeners' =
                 AddListener(completionListeners, Listener(i, "handleTodoCompletion"))
           /\ ls' = CMPersist(ls, loaded)
           /\ updateOwner' = i
    /\ UNCHANGED <<staleCall, nUpdates>>

\* The instance unmounts: the cleanups of its effects run.
LifeUnmount ==
    /\ LifeFrame
    /\ instance # 0
    /\ storageListeners' =
          RemoveListener(storageListeners, Listener(instance, "handleTodoCompletion"))
    /\ completionListeners' =
          RemoveListener(completionListeners, Listener(instance, "handleTodoCompletion"))
    /\ updateOwner' = 0
    /\ instance' = 0
    /\ instStats' = <<>>
    /\ UNCHANGED <<ls, nMounts, staleCall, nUpdates>>

\* Another window has stored a list and the event key: the storage event
\* for that key reaches the "storage" listeners of this window.
StorageEvent(list) ==
    /\ LifeFrame
    /\ nMounts > 0
    /\ LET written == [ls EXCEPT
                         ![LOCAL_STORAGE_KEY] = Stringify(StatFields, list),
                         ![StatsKey] = Stringify(StatFields, list),
                         ![TODO_COMPLETION_EVENT] = Stamp]
           d == Delivered(storageListeners, written, instStats)
       IN  /\ instStats' = d.stats
           /\ staleCall' = (staleCall \/ d.stale)
           /\ ls' = IF instance # 0 THEN CMPersist(written, d.stats) ELSE written
    /\ UNCHANGED <<instance, nMounts, storageListeners, completionListeners,
                   updateOwner, nUpdates>>

\* window.updateContributionMap(increment) of the mounted instance; the
\* event it dispatches reaches the listeners of the event.
LifeUpdate(increment) ==
    /\ LifeFrame
    /\ updateOwner # 0
    /\ nUpdates < MaxUpdates
    /\ nUpdates' = nUpdates + 1
    /\ LET newStats == UpdatedStats(instStats, increment, clock)
           written == [ls EXCEPT
                         ![LOCAL_STORAGE_KEY] = Stringify(StatFields, newStats),
                         ![StatsKey] = Stringify(StatFields, newStats),
                         ![TODO_COMPLETION_EVENT] = Stamp]
           d == Delivered(completionListeners, written, newStats)
       IN  /\ instStats' = d.stats
           /\ staleCall' = (staleCall \/ d.stale)
           /\ ls' = CMPersist(written, d.stats)
    /\ UNCHANGED <<instance, nMounts, storageListeners, completionListeners,
                   updateOwner>>

InitLife == AppInit /\ GridIdle /\ RecIdle /\ CellIdle /\ TabsIdle /\ LifeInit
NextLife ==
    \/ LifeMount
    \/ LifeUnmount
    \/ \E list \in OtherStats : StorageEvent(list)
    \/ \E increment \in BOOLEAN : LifeUpdate(increment)
SpecLife == InitLife /\ [][NextLife]_vars

-----------------------------------------------------------------------------
(* Steps and counts the properties speak about *)

\* A text of blanks only, the empty text included.
Blank(t) == \A i \in 1..Len(t) : t[i] = " "

\* The ids of the tasks of a list.
IdsOf(ts) == {ts[k].id : k \in 1..Len(ts)}

\* The list without its k-th task.
Without(ts, k) == SubSeq(ts, 1, k - 1) \o SubSeq(ts, k + 1, Len(ts))

\* The stat list has an entry for the day the clock shows.
HasToday(list) == \E k \in 1..Len(list) : list[k].date = FormatDate(clock)

\* The colour classes from the empty colour to the darkest, as numbers.
LevelOf(colour) ==
    CASE colour = "empty" -> 0
      [] colour = "level1" -> 1
      [] colour = "level2" -> 2
      [] colour = "level3" -> 3
      [] colour = "level4" -> 4

\* The completed count the cell's date has in the stats, 0 when it has none.
CellCompleted ==
    LET hits == {k \in 1..Len(cStats) : cStats[k].date = FormatDate(cDate)}
    IN  IF hits = {} THEN 0 ELSE cStats[CHOOSE k \in hits : TRUE].completed

\* The positions in allDates of the days that get a month label: the first
\* day, and every day whose month is not the month of the day before.
LabelDays ==
    {i \in 1..Len(AllDates(gEnd)) :
        i = 1 \/ GetMonth(AllDates(gEnd)[i]) # GetMonth(AllDates(gEnd)[i - 1])}

\* The index, from 0, of the column of the finished grid that holds the date.
ColumnOf(date) ==
    (CHOOSE w \in 1..Len(gWeeks) :
        \E c \in 1..Len(gWeeks[w]) : gWeeks[w][c] = date) - 1

\* The dates of a stat list, and the order of two dates.
DatesOf(list) == {list[k].date : k \in 1..Len(list)}

Earlier(a, b) ==
    \/ a[1] < b[1]
    \/ a[1] = b[1] /\ a[2] < b[2]
    \/ a[1] = b[1] /\ a[2] = b[2] /\ a[3] < b[3]

\* The dates of a list without the oldest of them.
WithoutOldest(list) ==
    {d \in DatesOf(list) : \E e \in DatesOf(list) : Earlier(e, d)}

\* The component's own record is absent or holds a list without entries.
OwnKeyEmpty(store) ==
    \/ store[LOCAL_STORAGE_KEY] = Absent
    \/ Parses(store[LOCAL_STORAGE_KEY]) /\ Parse(store[LOCAL_STORAGE_KEY]) = <<>>

\* The instances that were mounted and are no longer.
UnmountedInstances == {i \in 1..nMounts : i # instance}

\* A step of addTodo that creates a task.
AddStep == AddTodo /\ Trim(newTodo) # <<>>

\* A step of addTodo, toggleTodo or deleteTodo that calls setTodos, after
\* which the recomputation and the persist effects have run.
TodoStep ==
    \/ AddStep
    \/ \E id \in Ids : ToggleTodo(id)
    \/ \E id \in Ids : DeleteTodo(id)

\* The number of tasks of the list with this date and completed = true.
CompletedOn(ts, date) ==
    Cardinality({k \in 1..Len(ts) : ts[k].date = date /\ ts[k].completed})

Buckets == {0, 25, 50, 75, 100}

\* The stat lists held in memory and the ones that parse from the store.
StatLists ==
    {stats, cmStats}
    \cup {Parse(ls[key]) : key \in {k \in {StatsKey, LOCAL_STORAGE_KEY} : Parses(ls[k])}}

RECURSIVE Flatten(_)
Flatten(ws) == IF Len(ws) = 0 THEN <<>> ELSE ws[1] \o Flatten(Tail(ws))

-----------------------------------------------------------------------------
(* Properties *)

\* C1: a step of add with a text that is not blank makes the list one longer:
\* the new task is last, has completed = false, date = today and an id no
\* task had, and the tasks before it are kept as they were, in order.
C1_AddAppendsTaskOfToday ==
    [][AddStep =>
        /\ Len(todos') = Len(todos) + 1
        /\ SubSeq(todos', 1, Len(todos)) = todos
        /\ todos'[Len(todos')].completed = FALSE
        /\ todos'[Len(todos')].date = FormatDate(clock)
        /\ \A k \in 1..Len(todos) : todos[k].id # todos'[Len(todos')].id]_vars

\* C2: after add, toggle or delete, every date that some task has is the date
\* of a DailyStat whose completed is the number of completed tasks of that date.
C2_StatForEveryTaskDate ==
    [][TodoStep =>
        \A k \in 1..Len(todos') :
            \E j \in 1..Len(stats') :
                /\ stats'[j].date = todos'[k].date
                /\ stats'[j].completed = CompletedOn(todos', todos'[k].date)]_vars

\* C3: after add, toggle or delete (and no call of updateContributionMap),
\* the cell of today in the map shows the number n of completed tasks of
\* today: the empty colour and "No contributions" for 0, level 1 and
\* "1 contribution" for 1, level 1 and "n contributions" for 2 and 3.
C3_TodayCellFollowsTasks ==
    [][TodoStep /\ nUpdates = 0 =>
        LET n == CompletedOn(todos', FormatDate(clock))
        IN  /\ n = 0 =>
                /\ CellColor(cmStats', clock, clock) = "empty"
                /\ CellTooltip(cmStats', clock).words = "No contributions"
            /\ n \in 1..3 =>
                /\ CellColor(cmStats', clock, clock) = "level1"
                /\ CellTooltip(cmStats', clock).count = n
                /\ CellTooltip(cmStats', clock).words =
                      (IF n = 1 THEN "contribution" ELSE "contributions")]_vars

\* C4: in the finished grid every column has 7 cells, and the cells dated
\* after today are the cells that end the last column, each marked future.
C4_EveryColumnHasSevenCells ==
    GridDone =>
        /\ \A w \in 1..Len(gWeeks) : Len(gWeeks[w]) = 7
        /\ \A w \in 1..Len(gWeeks) : \A c \in 1..Len(gWeeks[w]) :
              gWeeks[w][c] > gEnd =>
                /\ w = Len(gWeeks)
                /\ IsFutureDate(gWeeks[w][c], gEnd)
                /\ \A d \in c..Len(gWeeks[w]) : gWeeks[w][d] > gEnd

\* C5: the finished grid holds the 365 days from today - 364 to today, each
\* once, in order across and within columns, and a column starts at each
\* Sunday and at the first day of the range and nowhere else.
C5_GridIsTheYearInOrder ==
    GridDone =>
        LET cells == Flatten(gWeeks)
        IN  /\ Len(cells) >= 365
            /\ \A i \in 1..365 : cells[i] = gEnd - 365 + i
            /\ \A i \in 366..Len(cells) : cells[i] > gEnd
            /\ \A i \in 1..(Len(cells) - 1) : cells[i] < cells[i + 1]
            /\ \A w \in 1..Len(gWeeks) :
                  /\ Len(gWeeks[w]) > 0
                  /\ \/ gWeeks[w][1] = gEnd - 364
                     \/ GetDay(gWeeks[w][1]) = 0
                  /\ \A c \in 2..Len(gWeeks[w]) :
                        gWeeks[w][c] <= gEnd =>
                            /\ GetDay(gWeeks[w][c]) # 0
                            /\ gWeeks[w][c] # gEnd - 364

C5_Witness ==
    /\ GridDone
    /\ GetDay(gEnd) = 3
    /\ Len(gWeeks) = 53
    /\ Len(gWeeks[1]) = 4
    /\ gWeeks[53][5] = gEnd + 1

\* C6: after the recomputation the percentage of every DailyStat is given by
\* its completed count: 0 for 0, 25 for 1, 50 for 2 and 3, 75 for 4 and 5,
\* 100 for 6 and more, and the mapping never decreases as completed grows.
C6_PercentageIsBucketOfCompleted ==
    rDone =>
      /\ \A a, b \in 0..MaxRecTodos : a <= b => Bucket(a) <= Bucket(b)
      /\ \A k \in 1..Len(rOut) :
              LET c == rOut[k].completed
                  p == rOut[k].percentage
              IN  /\ c = CompletedOn(rTodos, rOut[k].date)
                  /\ c = 0 => p = 0
                  /\ c = 1 => p = 25
                  /\ c \in {2, 3} => p = 50
                  /\ c \in {4, 5} => p = 75
                  /\ c >= 6 => p = 100

C6_Witness ==
    /\ rDone
    /\ \E k \in 1..Len(rOut) : rOut[k].completed = 6 /\ rOut[k].percentage = 100
    /\ \E k \in 1..Len(rTodos) : ~rTodos[k].completed

\* C7: every DailyStat in memory or stored under `stats` or
\* `contribution-tracker-stats` has a percentage in {0, 25, 50, 75, 100}.
C7_PercentageIsABucket ==
    \A list \in StatLists :
        \A k \in 1..Len(list) : list[k].percentage \in Buckets

\* C8: after the mount and after every recomputation the stat list, in
\* memory and as stored under `stats`, has 365 entries, one for each day
\* from today - 364 to today.
C8_StatListCoversTheYear ==
    [][(Mount /\ app' = "mounted") \/ TodoStep =>
        /\ Len(stats') = 365
        /\ \A i \in 0..364 :
              Cardinality({k \in 1..Len(stats') :
                              stats'[k].date = FormatDate(clock - i)}) = 1
        /\ Parses(ls'[StatsKey])
        /\ Parse(ls'[StatsKey]) = stats']_vars

\* C9: while the page is mounted, so after every add, toggle and delete, the
\* value stored under `todos` is the task list in memory, and a reload from
\* the store gives that same list.
C9_StoredTodosAreTheList ==
    app = "mounted" =>
        /\ Parses(ls[TodosKey])
        /\ Parse(ls[TodosKey]) = todos
        /\ ~MountResult(ls, clock).crashed
        /\ MountResult(ls, clock).todos = todos

C9_Witness ==
    /\ app = "mounted"
    /\ nextId = 2
    /\ Len(todos) = 1
    /\ todos[1].id = 2
    /\ todos[1].completed
    /\ Parse(ls[TodosKey]) = todos

\* C10: opening the page on a store in which a record is malformed fails
\* nowhere and gives the state that opening it without that record gives.
C10_MalformedIsAbsent ==
    app = "unmounted" =>
        \A key \in RecordKeys :
            ls[key] = Garbage =>
                /\ ~MountResult(ls, clock).crashed
                /\ MountResult(ls, clock) =
                      MountResult([ls EXCEPT ![key] = Absent], clock)

\* C11: a step of add with a text that is empty or all blanks creates no task:
\* the task list, the stat list and the stored records stay as they are and
\* the page stays mounted.
C11_BlankAddChangesNothing ==
    [][AddTodo /\ Blank(newTodo) =>
        /\ todos' = todos
        /\ stats' = stats
        /\ cmStats' = cmStats
        /\ ls' = ls
        /\ app' = "mounted"]_vars

C11_Witness ==
    /\ app = "mounted"
    /\ newTodo = <<" ", " ">>
    /\ Len(todos) = 1
    /\ ENABLED (AddTodo /\ Blank(newTodo))

\* C12: a step of toggle(id) for the id of a task keeps the length and the
\* order of the list, changes the completed flag of the task with that id and
\* nothing else, and a second toggle(id) gives the list from before the first.
C12_ToggleTwiceIsIdentity ==
    [][\A id \in Ids :
        ToggleTodo(id) /\ id \in IdsOf(todos) =>
            /\ Len(todos') = Len(todos)
            /\ \A k \in 1..Len(todos) :
                  /\ todos'[k].id = todos[k].id
                  /\ todos'[k].text = todos[k].text
                  /\ todos'[k].date = todos[k].date
                  /\ todos'[k].completed =
                        (IF todos[k].id = id THEN ~todos[k].completed
                         ELSE todos[k].completed)
            /\ ToggledTodos(todos', id) = todos]_vars

C12_Witness ==
    /\ app = "mounted"
    /\ Len(todos) = 2
    /\ todos[1].completed
    /\ ~todos[2].completed
    /\ ENABLED ToggleTodo(todos[1].id)

\* C13: toggle(id) and delete(id) for an id no task has keep the task list as
\* it was and the page mounted, and keep the stat list as it was when that
\* list has an entry for today; delete(id) for the id of a task removes that
\* task and keeps the others in order.
C13_AbsentIdIsNoOp ==
    [][\A id \in Ids :
        /\ (ToggleTodo(id) \/ DeleteTodo(id)) /\ id \notin IdsOf(todos) =>
              /\ todos' = todos
              /\ app' = "mounted"
              /\ HasToday(stats) => stats' = stats
        /\ DeleteTodo(id) /\ id \in IdsOf(todos) =>
              /\ app' = "mounted"
              /\ \E k \in 1..Len(todos) :
                    todos[k].id = id /\ todos' = Without(todos, k)]_vars

C13_Witness ==
    /\ app = "mounted"
    /\ nextId = 2
    /\ Len(todos) = 1
    /\ todos[1].id = 2
    /\ todos[1].completed
    /\ HasToday(stats)
    /\ stats[1].completed = 1
    /\ ENABLED ToggleTodo(1)

\* C13 as stated: toggle(id) and delete(id) for an id no task has keep the
\* task list and the stat list as they were, whatever the day.
C13_AbsentIdKeepsStats ==
    [][\A id \in Ids :
        (ToggleTodo(id) \/ DeleteTodo(id)) /\ id \notin IdsOf(todos) =>
            /\ todos' = todos
            /\ stats' = stats
            /\ app' = "mounted"]_vars

\* C14: the colour of a rendered cell is given by whether its date is after
\* endDate and by the completed count of its date alone: transparent for a
\* future cell whatever the stats hold; else the empty colour for no stat or
\* 0, level 1 for 1..3, level 2 for 4..6, level 3 for 7..9, level 4 for 10
\* and more; the level never decreases as completed grows.
C14_ColourByFutureAndCompleted ==
    cRendered =>
        /\ cDate > cEnd => cColor = "transparent"
        /\ cDate <= cEnd =>
              LET c == CellCompleted
              IN  /\ c = 0 => cColor = "empty"
                  /\ c \in 1..3 => cColor = "level1"
                  /\ c \in 4..6 => cColor = "level2"
                  /\ c \in 7..9 => cColor = "level3"
                  /\ c >= 10 => cColor = "level4"
        /\ \A a, b \in CellStats :
              (a # <<>> /\ b # <<>> /\ a[1].completed <= b[1].completed) =>
                  LevelOf(GetColorClass(a)) <= LevelOf(GetColorClass(b))

C14_Witness ==
    /\ cRendered
    /\ cDate = cEnd
    /\ cStats # <<>>
    /\ cStats[1].date = FormatDate(cDate)
    /\ cStats[1].completed = 10
    /\ cStats[1].percentage = 0
    /\ cColor = "level4"

\* C15: with two pages on one store, whenever no mount is in progress and
\* the page whose add, toggle or delete ran last is open, the value stored
\* under `todos` is the task list of that page.
C15_StoredTodosAreTheLastWriters ==
    (/\ \A t \in Tabs : tabs[t].phase \in {"closed", "open"}
     /\ lastOp \in Tabs) =>
        /\ Parses(ls[TodosKey])
        /\ Parse(ls[TodosKey]) = tabs[lastOp].todos

\* C16: when both loops are done there is one month label for the first day
\* and for every day whose month differs from the month of the day before,
\* in order, and its index is the index of the column that holds that day.
C16_MonthLabelAtItsColumn ==
    MonthsDone =>
        /\ Len(gMonths) = Cardinality(LabelDays)
        /\ \A i \in LabelDays :
              LET k == Cardinality({j \in LabelDays : j <= i})
              IN  /\ gMonths[k].label = MonthLabel(AllDates(gEnd)[i])
                  /\ gMonths[k].index = ColumnOf(AllDates(gEnd)[i])

\* C17: when the stat list given to the recomputation has no entry for
\* today, the list produced has exactly one entry for today, as many entries
\* as the list given, and the dates of the list given without the oldest,
\* with today; when it has an entry for today, the dates stay the same.
C17_ReanchorReplacesOldest ==
    rDone =>
        IF RecToday \in DatesOf(rStats)
        THEN DatesOf(rOut) = DatesOf(rStats)
        ELSE /\ Cardinality({k \in 1..Len(rOut) : rOut[k].date = RecToday}) = 1
             /\ Len(rOut) = Len(rStats)
             /\ DatesOf(rOut) = WithoutOldest(rStats) \cup {RecToday}

\* C18: while the pointer is over a cell dated today or earlier, hoveredDay
\* is the day of that cell, also when the stats hold no entry for it; while
\* it is over a cell after today, and after it has left, there is no
\* selection.
C18_HoverSelectsTheDay ==
    cRendered =>
        /\ cPointer /\ cDate <= cEnd =>
              /\ hoveredDay # <<>>
              /\ hoveredDay[1].date = FormatDate(cDate)
        /\ cPointer /\ cDate > cEnd => hoveredDay = <<>>
        /\ ~cPointer => hoveredDay = <<>>

\* C19: a mount of the component while its own record is absent or holds no
\* entries and `stats` holds a list leaves the component displaying the list
\* stored under `stats`, on the first mount and on every later one.
C19_EmptyOwnKeyFallsBackToStats ==
    [][(/\ Mount
        /\ app' = "mounted"
        /\ OwnKeyEmpty(ls)
        /\ Parses(ls[StatsKey])) =>
            cmStats' = Parse(ls[StatsKey])]_vars

C21_UnmountLeavesNothing ==
    /\ \A i \in UnmountedInstances :
          /\ \A l \in storageListeners : l.inst # i
          /\ \A l \in completionListeners : l.inst # i
          /\ updateOwner # i
    /\ ~staleCall

====
